---- MODULE Spec2Model ----
(***************************************************************************)
(* Grainlify upgrade contract (contracts/grainlify-core/src/lib.rs).       *)
(*                                                                         *)
(* The contract's durable state is its instance storage (Admin, Version,   *)
(* UpgradeProposal(id), and the keys of the multisig module), its          *)
(* persistent storage (telemetry counters) and the installed WASM.  Each   *)
(* public function is one action.  A handler is an operator from the       *)
(* storage before the call to the storage at the point where the function  *)
(* returns or panics; the host commits the storage of a call that returns  *)
(* and discards every write of a call that panics.                         *)
(*                                                                         *)
(* `mod multisig` (lib.rs:155) is not part of the sources; MultiSig_* are  *)
(* written from the design document.                                       *)
(***************************************************************************)
EXTENDS Integers, FiniteSets, Sequences, Bags, TLC

\* ------------------------------------------------------------------ bounds
MaxCalls == 5        \* invocations that change the storage, per behaviour
MaxProposals == 2    \* proposals created in one behaviour

\* ------------------------------------------------------------- input sets
Principals == {"A", "B", "C"}
SignerSets == {{"A"}, {"A", "B"}}
Thresholds == {0, 2}
Proposers == {"A"}
Admins == {"A", "C"}
Hashes == {"H1", "H2"}
Versions == {0, 2}
ProposalIds == 0..MaxProposals
Times == {0, 1}
Functions == {"init", "upgrade", "set_ver"}
Durations == {10, 20, 30}

\* ------------------------------------------------------- program constants
VERSION == 1
InitialWasm == "H0"

VARIABLES
    instance,         \* instance storage: "Admin", "Version" (absent until set)
    upgradeProposal,  \* instance storage: DataKey::UpgradeProposal(id) -> hash
    multisig,         \* instance storage of MultiSig: "Config", "Counter"
    proposals,        \* instance storage of MultiSig: id -> proposal
    persistent,       \* persistent storage: "op_count", "err_count", "usr_count"
    perf,             \* persistent storage: <<"perf_cnt"|"perf_time"|"perf_last", f>>
    deployer,         \* installed code and the log of code replacements
    last,             \* the most recent call: operation, outcome, return value,
                      \* and whether it changed the storage
    issued,           \* the ids returned by propose_upgrade, in order
    initOk,           \* number of initializer calls that have succeeded
    calls,            \* number of invocations that have changed the storage
    log               \* the calls made directly to the monitoring module:
                      \* operations tracked and failed, and per function the
                      \* samples emitted, their sum and the time of the last one

vars == <<instance, upgradeProposal, multisig, proposals, persistent, perf,
          deployer, last, issued, initOk, calls, log>>

\* The storage a handler reads and writes.
Env == [instance |-> instance, upgradeProposal |-> upgradeProposal,
        multisig |-> multisig, proposals |-> proposals,
        persistent |-> persistent, perf |-> perf, deployer |-> deployer]

\* storage.get(k).unwrap_or(d), storage.has(k), storage.set(k, v)
Get(m, k, d) == IF k \in DOMAIN m THEN m[k] ELSE d
Has(m, k) == k \in DOMAIN m
Set(m, k, v) == (k :> v) @@ m

Ok(e, ret) == [env |-> e, res |-> "ok", ret |-> ret]
Panic(e, why) == [env |-> e, res |-> why, ret |-> 0]

\* Address::require_auth: the call is signed by `caller` alone.
require_auth(caller, principal) == principal = caller

\* ------------------------------------------------------------ monitoring
\* track_operation counting a failed operation as an error only.
track_operation_ErrOnly(e, operation, caller, success) ==
    LET count == Get(e.persistent, "op_count", 0)
        err_count == Get(e.persistent, "err_count", 0)
    IN  [e EXCEPT !.persistent =
            IF success THEN Set(@, "op_count", count + 1)
            ELSE Set(@, "err_count", err_count + 1)]

\* lib.rs:231-252.  The published event is not part of the storage.
track_operation(e, operation, caller, success) ==
    LET count == Get(e.persistent, "op_count", 0)
        p1 == Set(e.persistent, "op_count", count + 1)
        err_count == Get(p1, "err_count", 0)
        p2 == IF ~success THEN Set(p1, "err_count", err_count + 1) ELSE p1
    IN  [e EXCEPT !.persistent = p2]

\* emit_performance keeping one aggregate for all function names.
emit_performance_SharedKey(e, function, duration) ==
    LET count_key == <<"perf_cnt", "init">>
        time_key == <<"perf_time", "init">>
        count == Get(e.perf, count_key, 0)
        total == Get(e.perf, time_key, 0)
    IN  [e EXCEPT !.perf = Set(Set(@, count_key, count + 1), time_key, total + duration)]

\* lib.rs:255-276.  Only perf_cnt and perf_time are written.
emit_performance(e, function, duration) ==
    LET count_key == <<"perf_cnt", function>>
        time_key == <<"perf_time", function>>
        count == Get(e.perf, count_key, 0)
        total == Get(e.perf, time_key, 0)
    IN  [e EXCEPT !.perf = Set(Set(@, count_key, count + 1), time_key, total + duration)]

\* u64::saturating_sub
saturating_sub(a, b) == IF a >= b THEN a - b ELSE 0

\* lib.rs:279-289
health_check(e, timestamp) ==
    [is_healthy |-> TRUE, last_operation |-> timestamp,
     total_operations |-> Get(e.persistent, "op_count", 0),
     contract_version |-> "1.0.0"]

\* get_analytics dividing before it scales to basis points.
get_analytics_DivideFirst(e) ==
    LET ops == Get(e.persistent, "op_count", 0)
        users == Get(e.persistent, "usr_count", 0)
        errors == Get(e.persistent, "err_count", 0)
        error_rate == IF ops > 0 THEN (errors \div ops) * 10000 ELSE 0
    IN  [operation_count |-> ops, unique_users |-> users,
         error_count |-> errors, error_rate |-> error_rate]

\* lib.rs:292-313
get_analytics(e) ==
    LET ops == Get(e.persistent, "op_count", 0)
        users == Get(e.persistent, "usr_count", 0)
        errors == Get(e.persistent, "err_count", 0)
        error_rate == IF ops > 0 THEN (errors * 10000) \div ops ELSE 0
    IN  [operation_count |-> ops, unique_users |-> users,
         error_count |-> errors, error_rate |-> error_rate]

\* lib.rs:316-328
get_state_snapshot(e, timestamp) ==
    [timestamp |-> timestamp,
     total_operations |-> Get(e.persistent, "op_count", 0),
     total_users |-> Get(e.persistent, "usr_count", 0),
     total_errors |-> Get(e.persistent, "err_count", 0)]

\* lib.rs:331-349
get_performance_stats(e, function_name) ==
    LET count == Get(e.perf, <<"perf_cnt", function_name>>, 0)
        total == Get(e.perf, <<"perf_time", function_name>>, 0)
        lastc == Get(e.perf, <<"perf_last", function_name>>, 0)
        avg == IF count > 0 THEN total \div count ELSE 0
    IN  [function_name |-> function_name, call_count |-> count,
         total_time |-> total, avg_time |-> avg, last_called |-> lastc]

\* env.deployer().update_current_contract_wasm(hash): the host installs the
\* code and the log counts the replacement.
update_current_contract_wasm(e, hash) ==
    [e EXCEPT !.deployer.wasm = hash, !.deployer.installs = @ + 1]

\* Log entry: the replacement just issued was issued for proposal `id`.
NoteExecution(e, id) ==
    [e EXCEPT !.deployer.by_proposal = Set(@, id, Get(@, id, 0) + 1)]

\* ---------------------------------------------------------------- multisig
\* MultiSig::init: writes the configuration; the threshold is stored as given.
MultiSig_init(e, signers, threshold) ==
    Ok([e EXCEPT !.multisig =
            Set(@, "Config", [signers |-> signers, threshold |-> threshold])], 0)

\* MultiSig::propose: allocates the next id and stores an open proposal.
MultiSig_propose(e, proposer) ==
    IF ~Has(e.multisig, "Config") THEN Panic(e, "NotFound")
    ELSE LET id == Get(e.multisig, "Counter", 0)
         IN  Ok([e EXCEPT !.multisig = Set(@, "Counter", id + 1),
                          !.proposals = Set(@, id, [proposer |-> proposer,
                                                    approvals |-> EmptyBag,
                                                    executed |-> FALSE])], id)

\* MultiSig::approve that records every approval, repeated or not.
MultiSig_approve_NoDedup(e, caller, proposal_id, signer) ==
    IF ~require_auth(caller, signer) THEN Panic(e, "Unauthorized")
    ELSE IF ~Has(e.multisig, "Config") THEN Panic(e, "NotFound")
    ELSE IF signer \notin e.multisig["Config"].signers THEN Panic(e, "NotSigner")
    ELSE IF ~Has(e.proposals, proposal_id) THEN Panic(e, "NotFound")
    ELSE IF e.proposals[proposal_id].executed THEN Panic(e, "AlreadyExecuted")
    ELSE Ok([e EXCEPT !.proposals[proposal_id].approvals = @ (+) SetToBag({signer})], 0)

\* MultiSig::approve: the signer authorizes, is a configured signer, the
\* proposal exists and is open; a signer already in `approvals` is not added
\* again.
MultiSig_approve(e, caller, proposal_id, signer) ==
    IF ~require_auth(caller, signer) THEN Panic(e, "Unauthorized")
    ELSE IF ~Has(e.multisig, "Config") THEN Panic(e, "NotFound")
    ELSE IF signer \notin e.multisig["Config"].signers THEN Panic(e, "NotSigner")
    ELSE IF ~Has(e.proposals, proposal_id) THEN Panic(e, "NotFound")
    ELSE IF e.proposals[proposal_id].executed THEN Panic(e, "AlreadyExecuted")
    ELSE IF BagIn(signer, e.proposals[proposal_id].approvals) THEN Ok(e, 0)
    ELSE Ok([e EXCEPT !.proposals[proposal_id].approvals = @ (+) SetToBag({signer})], 0)

\* MultiSig::can_execute: the derived predicate |approvals| >= threshold and
\* not executed; a missing configuration or proposal aborts.
MultiSig_can_execute(e, proposal_id) ==
    IF ~Has(e.multisig, "Config") \/ ~Has(e.proposals, proposal_id)
    THEN Panic(e, "NotFound")
    ELSE Ok(e, /\ BagCardinality(e.proposals[proposal_id].approvals)
                    >= e.multisig["Config"].threshold
               /\ ~e.proposals[proposal_id].executed)

\* MultiSig::mark_executed
MultiSig_mark_executed(e, proposal_id) ==
    [e EXCEPT !.proposals[proposal_id].executed = TRUE]

\* ---------------------------------------------------------------- contract
\* init guarded by the Admin key instead of the Version key.
init_GuardOnAdmin(e, signers, threshold) ==
    IF Has(e.instance, "Admin") THEN Panic(e, "AlreadyInitialized")
    ELSE LET m == MultiSig_init(e, signers, threshold)
         IN  IF m.res # "ok" THEN m
             ELSE Ok([m.env EXCEPT !.instance = Set(@, "Version", VERSION)], 0)

\* lib.rs:400-407
init(e, signers, threshold) ==
    IF Has(e.instance, "Version") THEN Panic(e, "AlreadyInitialized")
    ELSE LET m == MultiSig_init(e, signers, threshold)
         IN  IF m.res # "ok" THEN m
             ELSE Ok([m.env EXCEPT !.instance = Set(@, "Version", VERSION)], 0)

\* init_admin that records the failed re-initialization and returns instead
\* of panicking.
init_admin_ReturnOnReinit(e, admin, timestamp) ==
    LET start == timestamp
    IN  IF Has(e.instance, "Admin")
        THEN Ok(track_operation(e, "init", admin, FALSE), 0)
        ELSE LET e1 == [e EXCEPT !.instance = Set(@, "Admin", admin)]
                 e2 == [e1 EXCEPT !.instance = Set(@, "Version", VERSION)]
                 e3 == track_operation(e2, "init", admin, TRUE)
                 duration == saturating_sub(timestamp, start)
             IN  Ok(emit_performance(e3, "init", duration), 0)

\* init_admin without the re-initialization guard of lib.rs:418-421.
init_admin_NoGuard(e, admin, timestamp) ==
    LET start == timestamp
        e1 == [e EXCEPT !.instance = Set(@, "Admin", admin)]
        e2 == [e1 EXCEPT !.instance = Set(@, "Version", VERSION)]
        e3 == track_operation(e2, "init", admin, TRUE)
        duration == saturating_sub(timestamp, start)
    IN  Ok(emit_performance(e3, "init", duration), 0)

\* lib.rs:414-435
init_admin(e, admin, timestamp) ==
    LET start == timestamp
    IN  IF Has(e.instance, "Admin")
        THEN Panic(track_operation(e, "init", admin, FALSE), "AlreadyInitialized")
        ELSE LET e1 == [e EXCEPT !.instance = Set(@, "Admin", admin)]
                 e2 == [e1 EXCEPT !.instance = Set(@, "Version", VERSION)]
                 e3 == track_operation(e2, "init", admin, TRUE)
                 duration == saturating_sub(timestamp, start)
             IN  Ok(emit_performance(e3, "init", duration), 0)

\* propose_upgrade storing the hash under UpgradeProposal(0) whatever the id.
propose_upgrade_FixedKey(e, proposer, wasm_hash) ==
    LET m == MultiSig_propose(e, proposer)
    IN  IF m.res # "ok" THEN m
        ELSE LET proposal_id == m.ret
             IN  Ok([m.env EXCEPT !.upgradeProposal = Set(@, 0, wasm_hash)],
                    proposal_id)

\* lib.rs:450-458
propose_upgrade(e, proposer, wasm_hash) ==
    LET m == MultiSig_propose(e, proposer)
    IN  IF m.res # "ok" THEN m
        ELSE LET proposal_id == m.ret
             IN  Ok([m.env EXCEPT !.upgradeProposal = Set(@, proposal_id, wasm_hash)],
                    proposal_id)

\* lib.rs:466-468
approve_upgrade(e, caller, proposal_id, signer) ==
    MultiSig_approve(e, caller, proposal_id, signer)

\* execute_upgrade without the final MultiSig::mark_executed.
execute_upgrade_NoMark(e, proposal_id) ==
    LET c == MultiSig_can_execute(e, proposal_id)
    IN  IF c.res # "ok" THEN c
        ELSE IF ~c.ret THEN Panic(e, "ThresholdNotMet")
        ELSE IF ~Has(e.upgradeProposal, proposal_id) THEN Panic(e, "NotFound")
        ELSE LET wasm_hash == e.upgradeProposal[proposal_id]
             IN  Ok(NoteExecution(update_current_contract_wasm(e, wasm_hash),
                                  proposal_id), 0)

\* lib.rs:475-489
execute_upgrade(e, proposal_id) ==
    LET c == MultiSig_can_execute(e, proposal_id)
    IN  IF c.res # "ok" THEN c
        ELSE IF ~c.ret THEN Panic(e, "ThresholdNotMet")
        ELSE IF ~Has(e.upgradeProposal, proposal_id) THEN Panic(e, "NotFound")
        ELSE LET wasm_hash == e.upgradeProposal[proposal_id]
                 e1 == NoteExecution(update_current_contract_wasm(e, wasm_hash),
                                     proposal_id)
             IN  Ok(MultiSig_mark_executed(e1, proposal_id), 0)

\* upgrade that counts the operation but emits no latency sample.
upgrade_NoEmit(e, caller, new_wasm_hash, timestamp) ==
    IF ~Has(e.instance, "Admin") THEN Panic(e, "NotFound")
    ELSE LET admin == e.instance["Admin"]
         IN  IF ~require_auth(caller, admin) THEN Panic(e, "Unauthorized")
             ELSE LET e1 == update_current_contract_wasm(e, new_wasm_hash)
                  IN  Ok(track_operation(e1, "upgrade", admin, TRUE), 0)

\* upgrade that also advances the stored version number.
upgrade_BumpVersion(e, caller, new_wasm_hash, timestamp) ==
    LET start == timestamp
    IN  IF ~Has(e.instance, "Admin") THEN Panic(e, "NotFound")
        ELSE LET admin == e.instance["Admin"]
             IN  IF ~require_auth(caller, admin) THEN Panic(e, "Unauthorized")
                 ELSE LET e0 == update_current_contract_wasm(e, new_wasm_hash)
                          e1 == [e0 EXCEPT !.instance =
                                    Set(@, "Version", Get(@, "Version", 0) + 1)]
                          e2 == track_operation(e1, "upgrade", admin, TRUE)
                          duration == saturating_sub(timestamp, start)
                      IN  Ok(emit_performance(e2, "upgrade", duration), 0)

\* upgrade without the admin.require_auth() of lib.rs:501.
upgrade_NoAuth(e, caller, new_wasm_hash, timestamp) ==
    LET start == timestamp
    IN  IF ~Has(e.instance, "Admin") THEN Panic(e, "NotFound")
        ELSE LET admin == e.instance["Admin"]
                 e1 == update_current_contract_wasm(e, new_wasm_hash)
                 e2 == track_operation(e1, "upgrade", admin, TRUE)
                 duration == saturating_sub(timestamp, start)
             IN  Ok(emit_performance(e2, "upgrade", duration), 0)

\* lib.rs:496-512
upgrade(e, caller, new_wasm_hash, timestamp) ==
    LET start == timestamp
    IN  IF ~Has(e.instance, "Admin") THEN Panic(e, "NotFound")
        ELSE LET admin == e.instance["Admin"]
             IN  IF ~require_auth(caller, admin) THEN Panic(e, "Unauthorized")
                 ELSE LET e1 == update_current_contract_wasm(e, new_wasm_hash)
                          e2 == track_operation(e1, "upgrade", admin, TRUE)
                          duration == saturating_sub(timestamp, start)
                      IN  Ok(emit_performance(e2, "upgrade", duration), 0)

\* get_version defaulting to VERSION instead of 0.
get_version_DefaultVersion(e) == Get(e.instance, "Version", VERSION)

\* lib.rs:519-521
get_version(e) == Get(e.instance, "Version", 0)

\* set_version that never lowers the stored number.
set_version_Monotonic(e, caller, new_version, timestamp) ==
    LET start == timestamp
    IN  IF ~Has(e.instance, "Admin") THEN Panic(e, "NotFound")
        ELSE LET admin == e.instance["Admin"]
                 current == Get(e.instance, "Version", 0)
             IN  IF ~require_auth(caller, admin) THEN Panic(e, "Unauthorized")
                 ELSE LET e1 == [e EXCEPT !.instance =
                                    Set(@, "Version", IF new_version > current
                                                      THEN new_version ELSE current)]
                          e2 == track_operation(e1, "set_ver", admin, TRUE)
                          duration == saturating_sub(timestamp, start)
                      IN  Ok(emit_performance(e2, "set_ver", duration), 0)

\* set_version falling back to the caller when no admin is stored.
set_version_DefaultAdmin(e, caller, new_version, timestamp) ==
    LET start == timestamp
        admin == Get(e.instance, "Admin", caller)
    IN  IF ~require_auth(caller, admin) THEN Panic(e, "Unauthorized")
        ELSE LET e1 == [e EXCEPT !.instance = Set(@, "Version", new_version)]
                 e2 == track_operation(e1, "set_ver", admin, TRUE)
                 duration == saturating_sub(timestamp, start)
             IN  Ok(emit_performance(e2, "set_ver", duration), 0)

\* lib.rs:524-542
set_version(e, caller, new_version, timestamp) ==
    LET start == timestamp
    IN  IF ~Has(e.instance, "Admin") THEN Panic(e, "NotFound")
        ELSE LET admin == e.instance["Admin"]
             IN  IF ~require_auth(caller, admin) THEN Panic(e, "Unauthorized")
                 ELSE LET e1 == [e EXCEPT !.instance = Set(@, "Version", new_version)]
                          e2 == track_operation(e1, "set_ver", admin, TRUE)
                          duration == saturating_sub(timestamp, start)
                      IN  Ok(emit_performance(e2, "set_ver", duration), 0)

\* ------------------------------------------------------------------- host
\* A host that keeps the writes a call made before it panicked.
Commit_KeepWrites(out) == out.env

\* One invocation: the storage of a call that returns is committed, every
\* write of a call that panics is discarded.
Commit(out) == IF out.res = "ok" THEN out.env ELSE Env

Invoke(op, out) ==
    LET e == Commit(out)
    IN  /\ calls' = IF e = Env THEN calls ELSE calls + 1
        /\ calls' <= MaxCalls
        /\ Get(e.multisig, "Counter", 0) <= MaxProposals
        /\ instance' = e.instance
        /\ upgradeProposal' = e.upgradeProposal
        /\ multisig' = e.multisig
        /\ proposals' = e.proposals
        /\ persistent' = e.persistent
        /\ perf' = e.perf
        /\ deployer' = e.deployer
        /\ last' = [op |-> op, res |-> out.res, ret |-> out.ret, changed |-> e # Env]
        /\ issued' = IF op = "propose_upgrade" /\ out.res = "ok"
                     THEN Append(issued, out.ret) ELSE issued
        /\ initOk' = IF op \in {"init", "init_admin"} /\ out.res = "ok"
                     THEN initOk + 1 ELSE initOk
        /\ log' = log

Init ==
    /\ instance = <<>>
    /\ upgradeProposal = <<>>
    /\ multisig = <<>>
    /\ proposals = <<>>
    /\ persistent = <<>>
    /\ perf = <<>>
    /\ deployer = [wasm |-> InitialWasm, installs |-> 0, by_proposal |-> <<>>]
    /\ last = [op |-> "deploy", res |-> "ok", ret |-> 0, changed |-> FALSE]
    /\ issued = <<>>
    /\ initOk = 0
    /\ calls = 0
    /\ log = [tracked |-> 0, failed |-> 0,
              samples |-> [f \in Functions |-> 0],
              total |-> [f \in Functions |-> 0],
              stamp |-> [f \in Functions |-> 0]]

Do_init ==
    \E signers \in SignerSets, threshold \in Thresholds :
        Invoke("init", init(Env, signers, threshold))

Do_init_admin ==
    \E admin \in Admins, timestamp \in Times :
        Invoke("init_admin", init_admin(Env, admin, timestamp))

Do_propose_upgrade ==
    \E proposer \in Proposers, wasm_hash \in Hashes :
        Invoke("propose_upgrade", propose_upgrade(Env, proposer, wasm_hash))

Do_approve_upgrade ==
    \E caller \in Principals, proposal_id \in ProposalIds, signer \in Principals :
        Invoke("approve_upgrade", approve_upgrade(Env, caller, proposal_id, signer))

Do_execute_upgrade ==
    \E proposal_id \in ProposalIds :
        Invoke("execute_upgrade", execute_upgrade(Env, proposal_id))

Do_upgrade ==
    \E caller \in Principals, new_wasm_hash \in Hashes, timestamp \in Times :
        Invoke("upgrade", upgrade(Env, caller, new_wasm_hash, timestamp))

Do_set_version ==
    \E caller \in Principals, new_version \in Versions, timestamp \in Times :
        Invoke("set_version", set_version(Env, caller, new_version, timestamp))

Do_get_version ==
    Invoke("get_version", Ok(Env, get_version(Env)))

\* The monitoring queries of lib.rs:549-566: each forwards to the monitoring
\* module and returns its record.
Do_health_check ==
    \E timestamp \in Times :
        Invoke("health_check", Ok(Env, health_check(Env, timestamp)))

Do_get_analytics ==
    Invoke("get_analytics", Ok(Env, get_analytics(Env)))

Do_get_state_snapshot ==
    \E timestamp \in Times :
        Invoke("get_state_snapshot", Ok(Env, get_state_snapshot(Env, timestamp)))

Do_get_performance_stats ==
    \E function_name \in Functions :
        Invoke("get_performance_stats",
               Ok(Env, get_performance_stats(Env, function_name)))

Next ==
    \/ Do_init
    \/ Do_init_admin
    \/ Do_propose_upgrade
    \/ Do_approve_upgrade
    \/ Do_execute_upgrade
    \/ Do_upgrade
    \/ Do_set_version
    \/ Do_get_version
    \/ Do_health_check
    \/ Do_get_analytics
    \/ Do_get_state_snapshot
    \/ Do_get_performance_stats

Spec == Init /\ [][Next]_vars

\* ------------------------------------------------- the monitoring module
\* The monitoring functions applied directly to the storage, with every
\* input they accept: any operation name, caller and outcome, any function
\* name and duration, at any ledger time.
Mon_track_operation ==
    \E operation \in Functions, caller \in Principals, success \in BOOLEAN :
        LET e == track_operation(Env, operation, caller, success)
        IN  /\ calls < MaxCalls
            /\ calls' = calls + 1
            /\ persistent' = e.persistent
            /\ perf' = e.perf
            /\ log' = [log EXCEPT !.tracked = @ + 1,
                                  !.failed = IF success THEN @ ELSE @ + 1]
            /\ last' = [op |-> "track_operation", res |-> "ok", ret |-> 0,
                        changed |-> TRUE]
            /\ UNCHANGED <<instance, upgradeProposal, multisig, proposals,
                           deployer, issued, initOk>>

Mon_emit_performance ==
    \E function \in Functions, duration \in Durations, timestamp \in Times :
        LET e == emit_performance(Env, function, duration)
        IN  /\ calls < MaxCalls
            /\ calls' = calls + 1
            /\ persistent' = e.persistent
            /\ perf' = e.perf
            /\ log' = [log EXCEPT !.samples[function] = @ + 1,
                                  !.total[function] = @ + duration,
                                  !.stamp[function] = timestamp]
            /\ last' = [op |-> "emit_performance", res |-> "ok", ret |-> 0,
                        changed |-> TRUE]
            /\ UNCHANGED <<instance, upgradeProposal, multisig, proposals,
                           deployer, issued, initOk>>

NextMonitoring ==
    \/ Mon_track_operation
    \/ Mon_emit_performance

SpecMonitoring == Init /\ [][NextMonitoring]_vars

\* ------------------------------------------------------------- vocabulary
durable == <<instance, upgradeProposal, multisig, proposals, persistent, perf,
             deployer>>

Initializers == {"init", "init_admin"}
GovernanceOps == {"upgrade", "set_version", "propose_upgrade", "approve_upgrade",
                  "execute_upgrade"}

\* Number of code replacements issued so far for proposal `id`.
Executions(id) == Get(deployer.by_proposal, id, 0)

\* Number of distinct approvals held by proposal `id`.
Approvals(id) == Cardinality(BagToSet(proposals[id].approvals))

\* ------------------------------------------------------------------ C1
\* C1: init and init_admin are mutually exclusive: at most one initializer
\* call ever succeeds, and an initializer call made after one has succeeded
\* fails with AlreadyInitialized.
C1_InitializersMutuallyExclusive ==
    /\ initOk <= 1
    /\ last.op \in Initializers =>
           \/ last.res = "ok" /\ initOk = 1
           \/ last.res = "AlreadyInitialized"

\* ------------------------------------------------------------------ C2
\* C2: for every proposal id, in every reachable state, execute_upgrade(id)
\* succeeds if and only if the proposal holds at least `threshold` distinct
\* approvals and no code replacement has been issued for it before;
\* otherwise the call is rejected.
C2_ExecuteIffThresholdMetAndNotExecuted ==
    [][last'.op = "execute_upgrade" =>
          \A proposal_id \in ProposalIds :
              Invoke("execute_upgrade", execute_upgrade(Env, proposal_id)) =>
                  (last'.res = "ok" <=>
                      /\ Has(multisig, "Config")
                      /\ Has(proposals, proposal_id)
                      /\ Approvals(proposal_id) >= multisig["Config"].threshold
                      /\ Executions(proposal_id) = 0)]_vars

\* A proposal under a threshold of 2 has just been executed.
C2_Witness ==
    /\ last.op = "execute_upgrade" /\ last.res = "ok"
    /\ multisig["Config"].threshold = 2
    /\ \E id \in DOMAIN proposals : proposals[id].executed /\ Approvals(id) = 2

\* ------------------------------------------------------------------ C3
\* C3: execution is exactly-once per proposal: at most one code replacement
\* is ever issued for a proposal id, the executed flag of a proposal stays
\* true once set, and an execute_upgrade on a proposal that has already been
\* executed fails with AlreadyExecuted.
C3_ExactlyOnceExecution ==
    /\ [](\A id \in ProposalIds : Executions(id) <= 1)
    /\ [][\A id \in DOMAIN proposals :
             proposals[id].executed =>
                 id \in DOMAIN proposals' /\ proposals'[id].executed]_vars
    /\ [][last'.op = "execute_upgrade" =>
             \A proposal_id \in ProposalIds :
                 (/\ Executions(proposal_id) >= 1
                  /\ Invoke("execute_upgrade", execute_upgrade(Env, proposal_id)))
                     => last'.res = "AlreadyExecuted"]_vars

\* ------------------------------------------------------------------ C4
\* C4: approval is idempotent: however many times a configured signer
\* approves an open proposal, the signer accounts for at most one entry of
\* the proposal's approvals, and an approval repeated by a signer already in
\* the approvals succeeds and changes nothing.
C4_ApprovalIdempotent ==
    /\ [](\A id \in DOMAIN proposals : \A signer \in Principals :
             CopiesIn(signer, proposals[id].approvals) <= 1)
    /\ [][last'.op = "approve_upgrade" =>
             \A proposal_id \in DOMAIN proposals : \A signer \in Principals :
                 (/\ ~proposals[proposal_id].executed
                  /\ BagIn(signer, proposals[proposal_id].approvals)
                  /\ Invoke("approve_upgrade",
                            approve_upgrade(Env, signer, proposal_id, signer)))
                     => /\ last'.res = "ok"
                        /\ BagCardinality(proposals'[proposal_id].approvals)
                             = BagCardinality(proposals[proposal_id].approvals)
                        /\ UNCHANGED durable]_vars

\* A signer has just approved again a proposal it had approved before: the
\* call succeeded without changing the storage.
C4_Witness ==
    /\ last.op = "approve_upgrade" /\ last.res = "ok" /\ ~last.changed
    /\ \E id \in DOMAIN proposals :
           ~proposals[id].executed /\ BagCardinality(proposals[id].approvals) = 1

\* ------------------------------------------------------------------ C5
\* C5: upgrade and set_version called by a caller who cannot authorize as
\* the stored admin fail with Unauthorized and leave the durable state
\* unchanged: admin, version, proposals, the operation and error counters,
\* the per-function aggregates and the installed code.
C5_NonAdminRejectedWithoutEffect ==
    /\ [][(last'.op = "upgrade" /\ Has(instance, "Admin")) =>
             \A caller \in Principals \ {instance["Admin"]} :
             \A new_wasm_hash \in Hashes, timestamp \in Times :
                 Invoke("upgrade", upgrade(Env, caller, new_wasm_hash, timestamp))
                     => last'.res = "Unauthorized" /\ UNCHANGED durable]_vars
    /\ [][(last'.op = "set_version" /\ Has(instance, "Admin")) =>
             \A caller \in Principals \ {instance["Admin"]} :
             \A new_version \in Versions, timestamp \in Times :
                 Invoke("set_version", set_version(Env, caller, new_version, timestamp))
                     => last'.res = "Unauthorized" /\ UNCHANGED durable]_vars

\* On an instance whose admin has already upgraded once, a call of upgrade
\* by another principal has just been rejected.
C5_Witness ==
    /\ last.op = "upgrade" /\ last.res = "Unauthorized" /\ ~last.changed
    /\ Has(instance, "Admin")
    /\ get_performance_stats(Env, "upgrade").call_count = 1

\* ------------------------------------------------------------------ C6
\* C6: get_version returns 0 in every state in which no initializer has
\* succeeded, and returns 1 in the state immediately after a successful
\* init and immediately after a successful init_admin.
C6_VersionZeroBeforeInitOneAfter ==
    /\ initOk = 0 => get_version(Env) = 0
    /\ (initOk = 0 /\ last.op = "get_version") => last.ret = 0
    /\ (last.op \in Initializers /\ last.res = "ok") => get_version(Env) = 1

\* init_admin has just succeeded on an instance that init had initialized.
C6_Witness ==
    /\ last.op = "init_admin" /\ last.res = "ok"
    /\ initOk = 2
    /\ get_version(Env) = 1

\* ------------------------------------------------------------------ C7
\* C7: before any initializer has succeeded, every governance operation
\* (upgrade, set_version, propose_upgrade, approve_upgrade, execute_upgrade)
\* is rejected and changes no state: no proposal exists and no code
\* replacement has been issued.
C7_GovernanceRejectedBeforeInit ==
    /\ [](initOk = 0 =>
             /\ proposals = <<>> /\ upgradeProposal = <<>>
             /\ deployer.installs = 0 /\ deployer.wasm = InitialWasm
             /\ last.op \in GovernanceOps => last.res # "ok")
    /\ [][(initOk = 0 /\ last'.op \in GovernanceOps) =>
             last'.res # "ok" /\ UNCHANGED durable]_vars

\* Before initialization, a set_version call has just been rejected.
C7_Witness ==
    /\ initOk = 0
    /\ last.op = "set_version" /\ last.res = "NotFound"

\* ------------------------------------------------------------------ C8
\* C8: in every reachable state every proposal's approvals are a subset of
\* the configured signer set, and approve_upgrade by a principal that is not
\* a configured signer is rejected and leaves the proposals unchanged.
C8_ApprovalsAreSigners ==
    /\ [](\A id \in DOMAIN proposals :
             /\ Has(multisig, "Config")
             /\ BagToSet(proposals[id].approvals) \subseteq multisig["Config"].signers)
    /\ [][(last'.op = "approve_upgrade" /\ Has(multisig, "Config")) =>
             \/ last'.res # "ok" /\ UNCHANGED durable
             \/ \A signer \in Principals \ multisig["Config"].signers :
                \A caller \in Principals, proposal_id \in ProposalIds :
                    ~Invoke("approve_upgrade",
                            approve_upgrade(Env, caller, proposal_id, signer))]_vars

\* An approval by a principal outside the signer set of an open proposal has
\* just been rejected.
C8_Witness ==
    /\ last.op = "approve_upgrade" /\ last.res = "NotSigner"
    /\ \E id \in DOMAIN proposals :
           ~proposals[id].executed /\ proposals[id].approvals # EmptyBag

\* ------------------------------------------------------------------ C9
\* C9: proposal ids are allocated collision-free and monotonically: the
\* first successful propose_upgrade returns 0 and each later one returns the
\* previous id plus 1, so no id is returned twice; a new proposal does not
\* overwrite the stored artifact id or the approvals of an existing
\* proposal.
C9_ProposalIdsMonotonic ==
    /\ [](\A i \in 1..Len(issued) : issued[i] = i - 1)
    /\ [][(last'.op = "propose_upgrade" /\ last'.res = "ok") =>
             /\ last'.ret \notin DOMAIN proposals
             /\ last'.ret \notin DOMAIN upgradeProposal
             /\ \A id \in DOMAIN proposals :
                    /\ id \in DOMAIN proposals'
                    /\ proposals'[id] = proposals[id]
             /\ \A id \in DOMAIN upgradeProposal :
                    /\ id \in DOMAIN upgradeProposal'
                    /\ upgradeProposal'[id] = upgradeProposal[id]]_vars

\* A second proposal has just been created next to a first one that holds an
\* approval and another artifact id.
C9_Witness ==
    /\ last.op = "propose_upgrade" /\ last.res = "ok" /\ last.ret = 1
    /\ issued = <<0, 1>>
    /\ proposals[0].approvals # EmptyBag
    /\ upgradeProposal[0] # upgradeProposal[1]

\* ------------------------------------------------------------------ C10
\* C10: the stored authorization configuration is immutable after
\* initialization: once an admin is stored it is the stored admin in every
\* later state, and once a signer set and threshold are stored they never
\* change.
C10_AuthorizationConfigImmutable ==
    /\ [][Has(instance, "Admin") =>
             Has(instance', "Admin") /\ instance'["Admin"] = instance["Admin"]]_vars
    /\ [][Has(multisig, "Config") =>
             Has(multisig', "Config") /\ multisig'["Config"] = multisig["Config"]]_vars

\* Both configurations are stored and a further init_admin has just been
\* rejected.
C10_Witness ==
    /\ Has(instance, "Admin") /\ Has(multisig, "Config")
    /\ last.op = "init_admin" /\ last.res = "AlreadyInitialized"

\* ------------------------------------------------------------------ C11
\* C11: every rejected call is all-or-nothing: the durable state after it
\* equals the durable state before it, the operation counter, the error
\* counter and the per-function aggregates included.  In particular an
\* init_admin on an instance that has an admin, an init on an instance that
\* has a version, and an execute_upgrade that is refused are rejected and
\* change nothing.
C11_RejectedCallsChangeNothing ==
    /\ [][last'.res # "ok" => UNCHANGED durable]_vars
    /\ [][(last'.op = "init_admin" /\ Has(instance, "Admin")) =>
             last'.res = "AlreadyInitialized" /\ UNCHANGED durable]_vars
    /\ [][(last'.op = "init" /\ Has(instance, "Version")) =>
             last'.res = "AlreadyInitialized" /\ UNCHANGED durable]_vars
    /\ [][(last'.op = "execute_upgrade" /\ deployer' = deployer) =>
             last'.res \in {"NotFound", "ThresholdNotMet"} /\ UNCHANGED durable]_vars

\* An init_admin has just been rejected on an instance whose telemetry holds
\* the one successful operation recorded before it.
C11_Witness ==
    /\ last.op = "init_admin" /\ last.res = "AlreadyInitialized" /\ ~last.changed
    /\ get_analytics(Env).operation_count = 1
    /\ get_performance_stats(Env, "init").call_count = 1

\* ------------------------------------------------------------------ C12
\* C12: every init_admin call records exactly one telemetry entry for the
\* operation `init`, whatever its outcome: a successful call increases the
\* operation counter by one and adds one latency sample to `init`, a
\* rejected call increases the operation counter and the error counter by
\* one each.
C12_InitAdminAlwaysRecorded ==
    [][last'.op = "init_admin" =>
        \A admin \in Admins, timestamp \in Times :
            Invoke("init_admin", init_admin(Env, admin, timestamp)) =>
                LET before == get_analytics(Env)
                    after  == get_analytics(Env)'
                IN  IF last'.res = "ok"
                    THEN /\ after.operation_count = before.operation_count + 1
                         /\ after.error_count = before.error_count
                         /\ get_performance_stats(Env, "init").call_count'
                                = get_performance_stats(Env, "init").call_count + 1
                    ELSE /\ after.operation_count = before.operation_count + 1
                         /\ after.error_count = before.error_count + 1]_vars

C14_SetVersionOverwrites ==
    /\ [][(last'.op = "set_version" /\ Has(instance, "Admin")) =>
             \A new_version \in Versions, timestamp \in Times :
                 Invoke("set_version",
                        set_version(Env, instance["Admin"], new_version, timestamp))
                     => /\ last'.res = "ok"
                        /\ get_version(Env)' = new_version
                        /\ instance'["Version"] = new_version]_vars
    /\ [][last'.op = "get_version" => last'.ret = get_version(Env)']_vars

\* The admin has just set the version number to 0, below the 1 that the
\* initializer had stored.
C14_Witness ==
    /\ last.op = "set_version" /\ last.res = "ok"
    /\ Has(instance, "Version") /\ get_version(Env) = 0
    /\ get_performance_stats(Env, "set_ver").call_count = 1

C16_PerformanceStatsMatchSamples ==
    \A function_name \in Functions :
        LET p == get_performance_stats(Env, function_name)
        IN  /\ p.function_name = function_name
            /\ p.call_count = log.samples[function_name]
            /\ p.total_time = log.total[function_name]
            /\ p.call_count = 0 => p.avg_time = 0
            /\ p.call_count > 0 =>
                   /\ p.avg_time * p.call_count <= p.total_time
                   /\ p.total_time < (p.avg_time + 1) * p.call_count

\* Three samples summing to 60 (as 10, 20 and 30 do) were emitted for
\* `upgrade` and two summing to 50 for `init`: 3/60/20 for the first,
\* 2/50/25 for the second, nothing for `set_ver`.
C16_Witness ==
    LET u == get_performance_stats(Env, "upgrade")
        i == get_performance_stats(Env, "init")
        v == get_performance_stats(Env, "set_ver")
    IN  /\ log.samples["upgrade"] = 3 /\ log.samples["init"] = 2
        /\ u.call_count = 3 /\ u.total_time = 60 /\ u.avg_time = 20
        /\ i.call_count = 2 /\ i.total_time = 50 /\ i.avg_time = 25
        /\ v.call_count = 0 /\ v.total_time = 0 /\ v.avg_time = 0

\* ------------------------------------------------------------------ C17
\* C17: emit_performance records the ledger time of the call as the
\* function's last-called time: after a call for a name at time t,
\* get_performance_stats of that name returns last_called = t.
C17_LastCalledIsRecorded ==
    \A function_name \in Functions :
        log.samples[function_name] > 0 =>
            get_performance_stats(Env, function_name).last_called
                = log.stamp[function_name]

\* ------------------------------------------------------------------ C18
\* C18: the error counter never exceeds the operation counter, in the
\* storage and in what get_analytics and get_state_snapshot report.
C18_ErrorsAtMostOperations ==
    /\ Get(persistent, "err_count", 0) <= Get(persistent, "op_count", 0)
    /\ get_analytics(Env).error_count <= get_analytics(Env).operation_count
    /\ \A timestamp \in Times :
           get_state_snapshot(Env, timestamp).total_errors
               <= get_state_snapshot(Env, timestamp).total_operations

\* Two operations were tracked and both failed: the two counters are equal.
C18_Witness ==
    /\ log.tracked = 2 /\ log.failed = 2
    /\ Get(persistent, "err_count", 0) = 2
    /\ Get(persistent, "op_count", 0) = 2

\* ------------------------------------------------------------------ C19
\* C19: init validates the threshold: a call with threshold < 1 or
\* threshold > |signers| establishes no configuration, so every stored
\* multisig configuration has 1 <= threshold <= |signers|.
C19_ThresholdWithinSignerCount ==
    Has(multisig, "Config") =>
        LET Config == multisig["Config"]
        IN  /\ 1 <= Config.threshold
            /\ Config.threshold <= Cardinality(Config.signers)

\* ------------------------------------------------------------------ C20
\* C20: on an instance in multisig mode (its first successful initializer
\* was init, so it holds a multisig configuration) the installed code is
\* replaced only by an execute_upgrade of a proposal holding at least
\* threshold distinct signer approvals, and no upgrade and no set_version
\* ever succeeds: no single principal replaces the code or changes the
\* version.
C20_MultisigModeHasNoSinglePrincipalPath ==
    [][Has(multisig, "Config") =>
          /\ last'.op \in {"upgrade", "set_version"} => last'.res # "ok"
          /\ deployer' # deployer =>
                /\ last'.op = "execute_upgrade"
                /\ \E id \in DOMAIN proposals :
                       /\ Executions(id)' = Executions(id) + 1
                       /\ Approvals(id) >= multisig["Config"].threshold
                       /\ BagToSet(proposals[id].approvals)
                              \subseteq multisig["Config"].signers]_vars

\* ------------------------------------------------------------------ C21
\* C21: in every reachable state the operation counter equals the sum of
\* the call counts of `init`, `upgrade` and `set_ver`, and the call count of
\* `init` is at most 1; each successful init_admin, upgrade and set_version
\* adds exactly one to the operation counter and to the call count of its
\* own function, and every other call (init, propose_upgrade,
\* approve_upgrade, execute_upgrade, the queries, every rejected call)
\* leaves all telemetry counters unchanged.
C21_OperationCounterIsSumOfCallCounts ==
    /\ [](/\ get_analytics(Env).operation_count
                 = get_performance_stats(Env, "init").call_count
                   + get_performance_stats(Env, "upgrade").call_count
                   + get_performance_stats(Env, "set_ver").call_count
          /\ get_performance_stats(Env, "init").call_count <= 1)
    /\ [][(last'.op \in {"init_admin", "upgrade", "set_version"}
             /\ last'.res = "ok") =>
             LET function == CASE last'.op = "init_admin" -> "init"
                               [] last'.op = "upgrade" -> "upgrade"
                               [] last'.op = "set_version" -> "set_ver"
             IN  /\ get_analytics(Env).operation_count'
                        = get_analytics(Env).operation_count + 1
                 /\ get_analytics(Env).error_count'
                        = get_analytics(Env).error_count
                 /\ \A f \in Functions :
                        get_performance_stats(Env, f).call_count'
                            = get_performance_stats(Env, f).call_count
                              + (IF f = function THEN 1 ELSE 0)]_vars
    /\ [][~(last'.op \in {"init_admin", "upgrade", "set_version"}
              /\ last'.res = "ok") =>
             UNCHANGED <<persistent, perf>>]_vars

\* The admin path has run init_admin, upgrade and set_version once each on
\* an instance that also holds a multisig configuration, and a proposal has
\* just been created: the counters are 3 = 1 + 1 + 1.
C21_Witness ==
    /\ last.op = "propose_upgrade" /\ last.res = "ok"
    /\ get_analytics(Env).operation_count = 3
    /\ \A f \in Functions : get_performance_stats(Env, f).call_count = 1

\* ------------------------------------------------------------------ C22
\* C22: in every state reachable through the public operations the error
\* counter is 0, however many calls were rejected: get_analytics reports
\* error_count = 0 and error_rate = 0 and get_state_snapshot reports
\* total_errors = 0.
C22_ErrorCounterAlwaysZero ==
    /\ Get(persistent, "err_count", 0) = 0
    /\ get_analytics(Env).error_count = 0
    /\ get_analytics(Env).error_rate = 0
    /\ \A timestamp \in Times : get_state_snapshot(Env, timestamp).total_errors = 0

\* A repeated init_admin, the one call that writes a failure entry, has
\* just been rejected after two counted operations: no error is on record.
C22_Witness ==
    /\ last.op = "init_admin" /\ last.res = "AlreadyInitialized"
    /\ get_analytics(Env).operation_count = 2
    /\ get_analytics(Env).error_count = 0
    /\ ~Has(persistent, "err_count")

====
